---- MODULE Spec2Model ----
(***************************************************************************)
(* PerceptronRanker (tgen/rank.py): the structured-perceptron training     *)
(* loop and its rival-candidate generation, as a state machine.            *)
(*                                                                         *)
(* Trees are identified by small integers; a dialogue act (DA) is          *)
(* identified by the 0-based index of its training instance.  Feature      *)
(* vectors and weights are integer vectors of the feature-space dimension. *)
(* The external collaborators (planners, vectorizer, feature functions)    *)
(* are modelled at their interface: what they return is an input drawn     *)
(* from a bounded set, or a fixed pure function.                           *)
(***************************************************************************)
EXTENDS Integers, Sequences, FiniteSets

\* ---------------------------------------------------------------- bounds
NumTrees == 3       \* distinct trees the corpus and the planners may produce
MaxCorpus == 3      \* largest number of (DA, tree) pairs in the input files
MaxPasses == 2      \* largest configured number of passes
MaxRivals == 2      \* largest configured rival_number
MaxAlpha == 2       \* largest configured learning rate
MaxClose == 2       \* longest closed list the search planner returns
Dim == 2            \* feature-space dimension fitted on a non-empty training set

Trees == 1..NumTrees
Strategies == {"other_inst", "random", "gen_cur_weights"}
Portions == {0, 50, 100}     \* data_portion, in percent
Repeats == {1, 2}            \* how often the input files repeat each tree

\* the trees of an input file of k sentences, each tree r times in a row
Corpus(k, r) == [i \in 1..k |-> (((i - 1) \div r) % NumTrees) + 1]

VARIABLES
    \* configuration and input, fixed after construction
    alpha, passes, rival_number, rival_gen_strategy, candgen_model,
    data_portion, ttrees,
    \* fields of the ranker
    w_set,              \* FALSE while self.w is None
    w,                  \* self.w once created
    train_trees,        \* self.train_trees
    has_candgen,        \* the attribute self.candgen exists
    has_sampling_planner,
    has_asearch_planner,
    lists_analyzer,     \* number of appends the lists analyzer holds
    \* locals of train / _training_iter / _get_rival_candidates
    iter_no, iter_errs, tree_no,
    rival_idxs, random_trees, close_list, gen_trees, rival_trees,
    cands, scores, top_cand_idx,
    \* control
    pc, err,
    \* history
    planner_w,          \* the weights the A* planner's scoring callback read last
    upd_sum,            \* sum of (gold - top rival) over every update applied so far
    steps               \* per-instance steps completed so far

vars == <<alpha, passes, rival_number, rival_gen_strategy, candgen_model,
          data_portion, ttrees, w_set, w, train_trees, has_candgen,
          has_sampling_planner, has_asearch_planner, lists_analyzer,
          iter_no, iter_errs, tree_no, rival_idxs, random_trees, close_list,
          gen_trees, rival_trees, cands, scores, top_cand_idx, pc, err,
          planner_w, upd_sum, steps>>

cfgVars == <<alpha, passes, rival_number, rival_gen_strategy, candgen_model,
             data_portion, ttrees>>

\* ------------------------------------------------------------ sequences
SeqsUpTo(S, n) == UNION {[1..k -> S] : k \in 0..n}

RECURSIVE Reverse(_)
Reverse(s) == IF s = <<>> THEN <<>> ELSE Append(Reverse(Tail(s)), Head(s))

RECURSIVE Filter(_, _)
\* the entries of s that differ from x, in order
Filter(s, x) ==
    IF s = <<>> THEN <<>>
    ELSE IF Head(s) = x THEN Filter(Tail(s), x)
         ELSE <<Head(s)>> \o Filter(Tail(s), x)

Min(a, b) == IF a < b THEN a ELSE b

\* -------------------------------------------------------------- vectors
FeatDim(train_size) == IF train_size = 0 THEN 0 ELSE Dim

Ones(n) == [d \in 1..n |-> 1]

Zeros(n) == [d \in 1..n |-> 0]

RECURSIVE DotTo(_, _, _)
DotTo(a, b, n) == IF n = 0 THEN 0 ELSE DotTo(a, b, n - 1) + a[n] * b[n]

\* np.dot(self.w, cand_feats)
Score(weights, cand_feats) == DotTo(weights, cand_feats, Len(weights))

\* the normalized feature vector of (tree, da): a fixed pure function
ExtractFeats(tree, da) ==
    [d \in 1..Dim |-> ((tree * d + da * (d + 1) + tree * da) % 3) - 1]

\* the update with the learning rate left out
PerceptronUpdateNoAlpha(weights, gold_feats, rival_feats) ==
    [d \in 1..Len(weights) |-> weights[d] + (gold_feats[d] - rival_feats[d])]

\* the update put off: the weights stay as they are
PerceptronUpdateDeferred(weights, gold_feats, rival_feats) == weights

\* the update with gold and rival swapped
PerceptronUpdateReversed(weights, gold_feats, rival_feats) ==
    [d \in 1..Len(weights) |->
        weights[d] + (alpha * rival_feats[d] - alpha * gold_feats[d])]

\* self.w += (self.alpha * gold_feats - self.alpha * cands[top_cand_idx])
PerceptronUpdate(weights, gold_feats, rival_feats) ==
    [d \in 1..Len(weights) |->
        weights[d] + (alpha * gold_feats[d] - alpha * rival_feats[d])]

\* int(round(data_portion * len(ttrees))), round() rounding halves upwards
TrainSize(portion, corpus_len) == (portion * corpus_len + 50) \div 100

\* the index of the last maximal score: a tie goes to the rival
TopCandIdxLast(scs) ==
    (CHOOSE i \in 1..Len(scs) :
        /\ \A j \in 1..Len(scs) : scs[j] <= scs[i]
        /\ \A j \in (i + 1)..Len(scs) : scs[j] < scs[i]) - 1

\* scores.index(max(scores)): the 0-based index of the first maximal score
TopCandIdx(scs) ==
    (CHOOSE i \in 1..Len(scs) :
        /\ \A j \in 1..Len(scs) : scs[j] <= scs[i]
        /\ \A j \in 1..(i - 1) : scs[j] < scs[i]) - 1

\* the sampled index kept as it is
RivalIdxNoSubst(idx, cur, n) == idx

\* lambda idx: len(train_trees) - 1 if idx == tree_no else idx
RivalIdx(idx, cur, n) == IF idx = cur THEN n - 1 ELSE idx

\* random.sample(xrange(n), k): the sequences it can return
Samples(n, k) ==
    {s \in [1..k -> 0..(n - 1)] : \A i, j \in 1..k : i # j => s[i] # s[j]}

RECURSIVE DrainCloseListFront(_, _, _, _)
\* the closed list read from its front
DrainCloseListFront(cl, gen, gold, k) ==
    IF cl # <<>> /\ Len(gen) < k
    THEN DrainCloseListFront(Tail(cl),
                             IF Head(cl) # gold THEN Append(gen, Head(cl)) ELSE gen,
                             gold, k)
    ELSE <<cl, gen>>

RECURSIVE DrainCloseList(_, _, _, _)
\* while close_list and len(gen_trees) < rival_number: pop from the end,
\* keep what differs from the gold tree.  Returns <<close_list, gen_trees>>.
DrainCloseList(cl, gen, gold, k) ==
    IF cl # <<>> /\ Len(gen) < k
    THEN LET tree == cl[Len(cl)]
             rest == SubSeq(cl, 1, Len(cl) - 1)
         IN  DrainCloseList(rest, IF tree # gold THEN Append(gen, tree) ELSE gen,
                            gold, k)
    ELSE <<cl, gen>>

\* the stage of _get_rival_candidates that follows stage `after`
NextStage(after) ==
    IF after \in {"begin"} /\ "other_inst" \in rival_gen_strategy
        THEN "other_inst"
    ELSE IF after \in {"begin", "other_inst"} /\ "random" \in rival_gen_strategy
        THEN "random"
    ELSE IF after \in {"begin", "other_inst", "random"}
            /\ "gen_cur_weights" \in rival_gen_strategy
        THEN "gen_cur"
    ELSE "score"

GoldTree == train_trees[tree_no + 1]

GoldFeats == ExtractFeats(GoldTree, tree_no)

\* ----------------------------------------------------------------- Init
Init ==
    /\ alpha \in 1..MaxAlpha
    /\ passes \in 1..MaxPasses
    /\ rival_number \in 0..MaxRivals
    /\ rival_gen_strategy \in SUBSET Strategies
    /\ candgen_model \in {"None", "model"}
    /\ data_portion \in Portions
    /\ ttrees \in {Corpus(k, r) : k \in 1..MaxCorpus, r \in Repeats}
    /\ w_set = FALSE
    /\ w = <<>>
    /\ train_trees = <<>>
    /\ has_candgen = FALSE
    /\ has_sampling_planner = FALSE
    /\ has_asearch_planner = FALSE
    /\ lists_analyzer = 0
    /\ iter_no = 0
    /\ iter_errs = 0
    /\ tree_no = 0
    /\ rival_idxs = <<>>
    /\ random_trees = <<>>
    /\ close_list = <<>>
    /\ gen_trees = <<>>
    /\ rival_trees = <<>>
    /\ cands = <<>>
    /\ scores = <<>>
    /\ top_cand_idx = 0
    /\ pc = "init"
    /\ err = "none"
    /\ planner_w = <<>>
    /\ upd_sum = <<>>
    /\ steps = 0

Fail(error) ==
    /\ pc' = "failed"
    /\ err' = error

\* -------------------------------------------------------------- actions
\* _init_training
InitTraining ==
    /\ pc = "init"
    /\ LET train_size == TrainSize(data_portion, Len(ttrees))
       IN  /\ train_trees' = SubSeq(ttrees, 1, train_size)
           /\ has_candgen' = (candgen_model # "None")
           /\ has_sampling_planner' = (candgen_model # "None")
           /\ IF "gen_cur_weights" \in rival_gen_strategy /\ candgen_model = "None"
              THEN \* `assert self.candgen is not None` reads an attribute never set
                   /\ Fail("AttributeError")
                   /\ UNCHANGED <<has_asearch_planner, w_set, w, upd_sum, iter_no>>
              ELSE /\ has_asearch_planner' = ("gen_cur_weights" \in rival_gen_strategy)
                   /\ w_set' = TRUE
                   /\ w' = Ones(FeatDim(train_size))
                   /\ upd_sum' = Zeros(FeatDim(train_size))
                   /\ iter_no' = 1
                   /\ pc' = "iter_start"
                   /\ UNCHANGED err
    /\ UNCHANGED <<cfgVars, lists_analyzer, iter_errs, tree_no, rival_idxs,
                   random_trees, close_list, gen_trees, rival_trees, cands,
                   scores, top_cand_idx, planner_w, steps>>

\* _training_iter up to the head of the loop over the training instances
TrainingIterStart ==
    /\ pc = "iter_start"
    /\ iter_errs' = 0
    /\ lists_analyzer' = 0
    /\ tree_no' = 0
    /\ pc' = IF Len(train_trees) = 0 THEN "iter_end" ELSE "begin"
    /\ UNCHANGED <<cfgVars, w_set, w, train_trees, has_candgen,
                   has_sampling_planner, has_asearch_planner, iter_no,
                   rival_idxs, random_trees, close_list, gen_trees, rival_trees,
                   cands, scores, top_cand_idx, err, planner_w, upd_sum, steps>>

\* entry of _get_rival_candidates for instance tree_no; the previous
\* instance's locals are dead from here on
GetRivalCandidates ==
    /\ pc = "begin"
    /\ rival_idxs' = <<>>
    /\ random_trees' = <<>>
    /\ close_list' = <<>>
    /\ gen_trees' = <<>>
    /\ rival_trees' = <<>>
    /\ cands' = <<>>
    /\ scores' = <<>>
    /\ top_cand_idx' = 0
    /\ pc' = NextStage("begin")
    /\ UNCHANGED <<cfgVars, w_set, w, train_trees, has_candgen,
                   has_sampling_planner, has_asearch_planner, lists_analyzer,
                   iter_no, iter_errs, tree_no, err, planner_w, upd_sum, steps>>

\* strategy other_inst
OtherInst ==
    /\ pc = "other_inst"
    /\ LET n == Len(train_trees)
       IN  IF rival_number > n - 1
           THEN \* random.sample: sample larger than population
                /\ Fail("ValueError")
                /\ UNCHANGED <<rival_idxs, rival_trees>>
           ELSE \E sample \in Samples(n - 1, rival_number) :
                /\ rival_idxs' = [k \in 1..rival_number |->
                                     RivalIdx(sample[k], tree_no, n)]
                /\ rival_trees' = rival_trees \o
                       [k \in 1..rival_number |-> train_trees[rival_idxs'[k] + 1]]
                /\ pc' = NextStage("other_inst")
                /\ UNCHANGED err
    /\ UNCHANGED <<cfgVars, w_set, w, train_trees, has_candgen,
                   has_sampling_planner, has_asearch_planner, lists_analyzer,
                   iter_no, iter_errs, tree_no, random_trees, close_list,
                   gen_trees, cands, scores, top_cand_idx, planner_w, upd_sum,
                   steps>>

\* strategy random: one turn of the collection loop
RandomDraw ==
    /\ pc = "random"
    /\ Len(random_trees) < rival_number
    /\ IF ~has_sampling_planner
       THEN \* self.sampling_planner was never set
            /\ Fail("AttributeError")
            /\ UNCHANGED random_trees
       ELSE \E tree \in Trees :
            /\ random_trees' = IF tree # GoldTree
                               THEN Append(random_trees, tree)
                               ELSE random_trees
            /\ UNCHANGED <<pc, err>>
    /\ UNCHANGED <<cfgVars, w_set, w, train_trees, has_candgen,
                   has_sampling_planner, has_asearch_planner, lists_analyzer,
                   iter_no, iter_errs, tree_no, rival_idxs, close_list,
                   gen_trees, rival_trees, cands, scores, top_cand_idx,
                   planner_w, upd_sum, steps>>

\* strategy random: the loop is left
RandomDone ==
    /\ pc = "random"
    /\ Len(random_trees) >= rival_number
    /\ rival_trees' = rival_trees \o random_trees
    /\ pc' = NextStage("random")
    /\ UNCHANGED <<cfgVars, w_set, w, train_trees, has_candgen,
                   has_sampling_planner, has_asearch_planner, lists_analyzer,
                   iter_no, iter_errs, tree_no, rival_idxs, random_trees,
                   close_list, gen_trees, cands, scores, top_cand_idx, err,
                   planner_w, upd_sum, steps>>

\* strategy gen_cur_weights: the A* planner runs and its lists are logged
RunASearch ==
    /\ pc = "gen_cur"
    /\ \E closed \in SeqsUpTo(Trees, MaxClose) : close_list' = closed
    /\ planner_w' = w
    /\ lists_analyzer' = lists_analyzer + 1
    /\ pc' = "drain"
    /\ UNCHANGED <<cfgVars, w_set, w, train_trees, has_candgen,
                   has_sampling_planner, has_asearch_planner, iter_no,
                   iter_errs, tree_no, rival_idxs, random_trees, gen_trees,
                   rival_trees, cands, scores, top_cand_idx, err, upd_sum,
                   steps>>

\* strategy gen_cur_weights: rivals are taken from the closed list
DrainClosed ==
    /\ pc = "drain"
    /\ LET drained == DrainCloseList(close_list, <<>>, GoldTree, rival_number)
       IN  /\ close_list' = drained[1]
           /\ gen_trees' = drained[2]
           /\ rival_trees' = rival_trees \o
                  SubSeq(drained[2], 1, Min(rival_number, Len(drained[2])))
    /\ pc' = NextStage("gen_cur")
    /\ UNCHANGED <<cfgVars, w_set, w, train_trees, has_candgen,
                   has_sampling_planner, has_asearch_planner, lists_analyzer,
                   iter_no, iter_errs, tree_no, rival_idxs, random_trees,
                   cands, scores, top_cand_idx, err, planner_w, upd_sum, steps>>

\* the per-instance step of _training_iter once the rivals are there
TrainingStep ==
    /\ pc = "score"
    /\ LET cs == <<GoldFeats>> \o
                 [k \in 1..Len(rival_trees) |-> ExtractFeats(rival_trees[k], tree_no)]
           scs == [k \in 1..Len(cs) |-> Score(w, cs[k])]
           top == TopCandIdx(scs)
       IN  /\ cands' = cs
           /\ scores' = scs
           /\ top_cand_idx' = top
           /\ IF rival_trees = <<>>
              THEN \* max(scores[1:]) of an empty list
                   /\ Fail("ValueError")
                   /\ UNCHANGED <<w, iter_errs, upd_sum, steps, tree_no>>
              ELSE /\ IF top # 0
                      THEN /\ w' = PerceptronUpdate(w, GoldFeats, cs[top + 1])
                           /\ iter_errs' = iter_errs + 1
                           /\ upd_sum' = [d \in 1..Len(w) |->
                                  upd_sum[d] + (GoldFeats[d] - cs[top + 1][d])]
                      ELSE UNCHANGED <<w, iter_errs, upd_sum>>
                   /\ steps' = steps + 1
                   /\ IF tree_no + 1 < Len(train_trees)
                      THEN /\ tree_no' = tree_no + 1
                           /\ pc' = "begin"
                      ELSE /\ pc' = "iter_end"
                           /\ UNCHANGED tree_no
                   /\ UNCHANGED err
    /\ UNCHANGED <<cfgVars, w_set, train_trees, has_candgen,
                   has_sampling_planner, has_asearch_planner, lists_analyzer,
                   iter_no, rival_idxs, random_trees, close_list, gen_trees,
                   rival_trees, planner_w>>

\* the end of _training_iter and the head of train's loop over the passes
TrainingIterEnd ==
    /\ pc = "iter_end"
    /\ IF Len(train_trees) = 0
       THEN \* iter_errs / float(len(self.train_trees))
            /\ Fail("ZeroDivisionError")
            /\ UNCHANGED iter_no
       ELSE /\ IF iter_no < passes
               THEN /\ iter_no' = iter_no + 1
                    /\ pc' = "iter_start"
               ELSE /\ pc' = "done"
                    /\ UNCHANGED iter_no
            /\ UNCHANGED err
    /\ UNCHANGED <<cfgVars, w_set, w, train_trees, has_candgen,
                   has_sampling_planner, has_asearch_planner, lists_analyzer,
                   iter_errs, tree_no, rival_idxs, random_trees, close_list,
                   gen_trees, rival_trees, cands, scores, top_cand_idx,
                   planner_w, upd_sum, steps>>

Next ==
    \/ InitTraining
    \/ TrainingIterStart
    \/ GetRivalCandidates
    \/ OtherInst
    \/ RandomDraw
    \/ RandomDone
    \/ RunASearch
    \/ DrainClosed
    \/ TrainingStep
    \/ TrainingIterEnd

Spec == Init /\ [][Next]_vars

\* ------------------------------------------- runs with one strategy only
\* rival_gen_strategy = ['other_inst'], the default configuration
InitOtherInst ==
    /\ Init
    /\ rival_gen_strategy = {"other_inst"}

NextOtherInst ==
    \/ InitTraining
    \/ TrainingIterStart
    \/ GetRivalCandidates
    \/ OtherInst
    \/ TrainingStep
    \/ TrainingIterEnd

SpecOtherInst == InitOtherInst /\ [][NextOtherInst]_vars

\* rival_gen_strategy = ['gen_cur_weights'] with a candidate generator model,
\* the configuration of bagel-data/config/percrank.py
InitGenCur ==
    /\ Init
    /\ rival_gen_strategy = {"gen_cur_weights"}
    /\ candgen_model = "model"

NextGenCur ==
    \/ InitTraining
    \/ TrainingIterStart
    \/ GetRivalCandidates
    \/ RunASearch
    \/ DrainClosed
    \/ TrainingStep
    \/ TrainingIterEnd

SpecGenCur == InitGenCur /\ [][NextGenCur]_vars

\* --------------------------------------------------------------- claims
\* the per-instance step has run and its locals are still in place
StepRan == scores # <<>> /\ pc \in {"begin", "iter_end"}

\* some rival of the current instance scores strictly above the gold
RivalOutscoresGold ==
    \E k \in 1..Len(rival_trees) :
        Score(w, ExtractFeats(rival_trees[k], tree_no)) > Score(w, GoldFeats)

\* C1: in every per-instance step the gold feature vector is candidate 0, and
\* the weights change and the pass error counter grows by one if and only if
\* top_cand_idx # 0, if and only if some rival scores strictly higher than the
\* gold; on a tie with the best rival index 0 wins and nothing changes.
C1_UpdateIffRivalOutscoresGold ==
    [][pc = "score" =>
        /\ cands'[1] = GoldFeats
        /\ (top_cand_idx' # 0) <=> RivalOutscoresGold
        /\ (w' # w) <=> RivalOutscoresGold
        /\ iter_errs' = iter_errs + (IF RivalOutscoresGold THEN 1 ELSE 0)
        /\ (iter_errs' # iter_errs) <=> (top_cand_idx' # 0)]_vars

\* C1 witness: a step in which a rival with other features tied with the gold
\* and index 0 won
C1_TieWitness ==
    /\ StepRan
    /\ top_cand_idx = 0
    /\ \E k \in 2..Len(scores) : scores[k] = scores[1] /\ cands[k] # cands[1]

\* C2: whenever a step updates the weights, the new weights are
\* w_old + alpha * (g - r) in every dimension, r being the features of the
\* first candidate at the maximal score; no other rival contributes.
C2_UpdateIsAlphaTimesGoldMinusTop ==
    [][(pc = "score" /\ w' # w) =>
        \E i \in 2..Len(cands') :
            /\ \A j \in 1..Len(cands') : Score(w, cands'[j]) <= Score(w, cands'[i])
            /\ \A j \in 1..(i - 1) : Score(w, cands'[j]) < Score(w, cands'[i])
            /\ \A d \in 1..Len(w) :
                   w'[d] = w[d] + alpha * (GoldFeats[d] - cands'[i][d])]_vars

\* C2 witness: an update after a step in which two rivals with different
\* features both outscored the gold
C2_TwoViolatorsWitness ==
    /\ StepRan
    /\ top_cand_idx # 0
    /\ \E k \in 2..Len(scores) :
           /\ k # top_cand_idx + 1
           /\ scores[k] > scores[1]
           /\ cands[k] # cands[top_cand_idx + 1]

\* the weights after the updates whose (gold - rival) differences sum to s
WeightsAfter(s) == [d \in 1..Len(s) |-> 1 + alpha * s[d]]

\* C4: when the A* planner runs for an instance, the weights its scoring
\* callback reads are the all-ones vector plus every update applied at the
\* earlier steps of this pass and of the earlier passes.
C4_PlannerSeesAllEarlierUpdates ==
    (has_asearch_planner /\ pc \in {"drain", "score"}) =>
        /\ planner_w = WeightsAfter(upd_sum)
        /\ planner_w = w

\* C4 witness: the planner runs in the second pass, after updates made in the
\* first pass and in this one
C4_SecondPassWitness ==
    /\ pc = "drain"
    /\ iter_no = 2
    /\ tree_no >= 1
    /\ iter_errs >= 1
    /\ planner_w # Ones(Dim)

\* C10: an update with gold features g and top rival features r raises
\* score(g) - score(r) by exactly alpha * |g - r|^2, which is positive.
C10_UpdateRaisesMargin ==
    [][(pc = "score" /\ w' # w) =>
        LET g == cands'[1]
            r == cands'[top_cand_idx' + 1]
            diff == [d \in 1..Len(g) |-> g[d] - r[d]]
            old == Score(w, g) - Score(w, r)
            new == Score(w', g) - Score(w', r)
        IN  /\ new = old + alpha * Score(diff, diff)
            /\ new > old]_vars

\* C10 witness: after an update the rival still scores above the gold
C10_StillBehindWitness ==
    /\ StepRan
    /\ top_cand_idx # 0
    /\ Score(w, cands[1]) < Score(w, cands[top_cand_idx + 1])

\* C7: under gen_cur_weights the rivals are the first
\* min(rival_number, number of non-gold entries) non-gold trees of the closed
\* list read from its end, in that order; the lists analyzer gets exactly one
\* append per instance.
C7_RivalsAreLastNonGoldClosed ==
    [][/\ pc = "gen_cur" => lists_analyzer' = lists_analyzer + 1
       /\ pc = "drain" =>
            LET nongold == Filter(Reverse(close_list), GoldTree)
                k == Min(rival_number, Len(nongold))
            IN  /\ rival_trees' = rival_trees \o SubSeq(nongold, 1, k)
                /\ \A j \in 1..Len(rival_trees') : rival_trees'[j] # GoldTree
                /\ Len(rival_trees') <= Len(rival_trees) + rival_number
                /\ lists_analyzer' = lists_analyzer
                /\ lists_analyzer = tree_no + 1]_vars

\* C7 witness: rival_number rivals were taken and closed entries were left
C7_CapWitness ==
    /\ pc = "score"
    /\ rival_number >= 1
    /\ Len(gen_trees) = rival_number
    /\ close_list # <<>>
    /\ lists_analyzer = tree_no + 1
    /\ tree_no >= 1

C5_EmptyTrainingSetPassCompletes ==
    (data_portion = 0 /\ w_set) => (Len(train_trees) = 0 /\ pc # "failed")

\* C6 as stated: a strategy that needs the candidate generator, configured
\* without candgen_model, aborts in _init_training before the weights exist
\* and before any instance is processed (here for runs over the whole corpus
\* that ask for at least one rival).
C6_MissingCandgenAbortsAtInit ==
    (/\ rival_gen_strategy \cap {"gen_cur_weights", "random"} # {}
     /\ candgen_model = "None"
     /\ rival_number >= 1
     /\ data_portion = 100
     /\ pc # "init") =>
        (pc = "failed" /\ ~w_set /\ iter_no = 0 /\ steps = 0)

\* C8 as stated: a step whose rival generator returned fewer than rival_number
\* rivals is defined and the pass goes on; with no rival at all the gold is
\* the top candidate, nothing is updated and no error is counted.
C8_TooFewRivalsStepDefined ==
    [][(/\ pc = "score"
        /\ "gen_cur_weights" \in rival_gen_strategy
        /\ Len(rival_trees) < rival_number) =>
            /\ pc' \in {"begin", "iter_end"}
            /\ steps' = steps + 1
            /\ rival_trees = <<>> =>
                   (top_cand_idx' = 0 /\ w' = w /\ iter_errs' = iter_errs)]_vars

\* C9 as stated: a run over N >= 1 instances with other_inst and/or
\* gen_cur_weights ends after exactly passes * N per-instance steps.
C9_RunEndsAfterAllSteps ==
    (/\ pc \in {"done", "failed"}
     /\ w_set
     /\ Len(train_trees) >= 1
     /\ rival_gen_strategy # {}
     /\ rival_gen_strategy \subseteq {"other_inst", "gen_cur_weights"}
     /\ rival_number >= 1
     /\ "other_inst" \in rival_gen_strategy => Len(train_trees) > rival_number) =>
        (pc = "done" /\ steps = passes * Len(train_trees))

====
